---- MODULE Spec2Model ----
(***************************************************************************)
(* Model of aminator.plugins.provisioner.yum.YumProvisionerPlugin: the     *)
(* chroot session it configures (configure_chroot), the provisioning body  *)
(* it runs inside the chroot (provision) and the teardown of the chroot    *)
(* (teardown_chroot), driven through the context-manager protocol          *)
(* (__call__, __enter__, __exit__).                                        *)
(*                                                                         *)
(* Paths are sequences of components whose first component "/" marks an    *)
(* absolute path: "/mnt/proc" is <<"/", "mnt", "proc">>.                   *)
(***************************************************************************)
EXTENDS Integers, Sequences, FiniteSets, TLC

VARIABLES
    chroot_mounts,              \* config.chroot_mounts: the configured mountpoints, in order
    short_circuit_sbin_service, \* config: short circuit /sbin/service while installing
    mtab,                       \* /proc/mounts: the mounted paths, oldest first
    host_resolv,                \* os.path.isfile('/etc/resolv.conf') on the host
    resolv,                     \* <mountpoint>/etc/resolv.conf: "absent", "image" or "host"
    service,                    \* /sbin/service in the chroot: "wired" or "short"
    pc,                         \* position of the with-block: "start", "body", "exit", "released"
    outcome,                    \* what the with-block gave its caller
    enter_ran,                  \* __enter__ was called
    enter_ok,                   \* configure_chroot returned True
    body_ran,                   \* provision was called
    body_exc,                   \* provision raised ProvisionException
    exit_ran,                   \* __exit__ was called
    teardown_ok,                \* teardown_chroot returned True
    teardown_exc,               \* the exception teardown_chroot raised, or "none"
    enters,                     \* the number of __enter__ calls on the session
    busy,                       \* busy_mount(self.mountpoint).success as seen by teardown_chroot
    mount_calls,                \* the mount() calls of configure_chroot, in order
    unmount_calls,              \* the unmount() calls of teardown_chroot, in order
    steps,                      \* the commands provision ran, in order
    mtab0,                      \* mtab when __enter__ was called
    resolv0,                    \* resolv when __enter__ was called
    pre_mtab,                   \* mtab when __exit__ was called
    pre_resolv                  \* resolv when __exit__ was called

vars == <<chroot_mounts, short_circuit_sbin_service, mtab, host_resolv, resolv,
          service, pc, outcome, enter_ran, enter_ok, body_ran, body_exc,
          exit_ran, teardown_ok, teardown_exc, enters, busy, mount_calls,
          unmount_calls, steps, mtab0, resolv0, pre_mtab, pre_resolv>>

(* Bounds *)
MaxMounts == 3

(* self.mountpoint, set by __call__(volume) *)
mountpoint == <<"/", "mnt">>

(* the mountpoints a mount definition of the configuration may name *)
MountPoints == { <<"/", "proc">>, <<"/", "dev">>, <<"/", "extra">> }

(* the host's own /proc, mounted throughout *)
HostProc == <<"/", "proc">>

RECURSIVE lstrip(_)
(* str.lstrip('/') *)
lstrip(p) == IF p # <<>> /\ Head(p) = "/" THEN lstrip(Tail(p)) ELSE p

(* os.path.join(a, b): an absolute b discards a *)
join(a, b) == IF b # <<>> /\ Head(b) = "/" THEN b ELSE a \o b

(* MountSpec(...).mountpoint of a mount definition *)
MountSpec(mp) == join(mountpoint, lstrip(mp))

(* the paths a mount definition can resolve to *)
SpecPaths == { MountSpec(mp) : mp \in MountPoints }

Range(s) == { s[i] : i \in DOMAIN s }

Reverse(s) == [i \in 1..Len(s) |-> s[Len(s) + 1 - i]]

(* aminator.util.linux.mounted *)
mounted(mt, p) == \E i \in DOMAIN mt : mt[i] = p

(* aminator.util.linux.mount: appends to the mount table unless it fails *)
mount(mt, p, fail) == IF p \in fail THEN [success |-> FALSE, mtab |-> mt]
                      ELSE [success |-> TRUE, mtab |-> Append(mt, p)]

(* aminator.util.linux.unmount: removes from the mount table unless it fails *)
unmount(mt, p, fail) ==
    IF p \in fail \/ ~mounted(mt, p) THEN [success |-> FALSE, mtab |-> mt]
    ELSE [success |-> TRUE, mtab |-> SelectSeq(mt, LAMBDA q : q # p)]

IsUnder(root, p) == Len(p) > Len(root) /\ SubSeq(p, 1, Len(root)) = root

(* aminator.util.linux.lifo_mounts: the mounts below root, newest first *)
lifo_mounts(mt, root) == SelectSeq(Reverse(mt), LAMBDA p : IsUnder(root, p))

RECURSIVE configure_mounts_nocheck(_, _, _, _, _)
configure_mounts_nocheck(cfg, i, mt, calls, fail) ==
    IF i > Len(cfg) THEN [ok |-> TRUE, mtab |-> mt, calls |-> calls]
    ELSE LET mp == MountSpec(cfg[i])
             result == mount(mt, mp, fail)
         IN  IF ~result.success
             THEN [ok |-> FALSE, mtab |-> result.mtab, calls |-> Append(calls, mp)]
             ELSE configure_mounts_nocheck(cfg, i + 1, result.mtab, Append(calls, mp), fail)

RECURSIVE configure_mounts(_, _, _, _, _)
(* the for loop of configure_chroot from mount definition i on *)
configure_mounts(cfg, i, mt, calls, fail) ==
    IF i > Len(cfg) THEN [ok |-> TRUE, mtab |-> mt, calls |-> calls]
    ELSE LET mp == MountSpec(cfg[i]) IN
         IF ~mounted(mt, mp)
         THEN LET result == mount(mt, mp, fail) IN
              IF ~result.success
              THEN [ok |-> FALSE, mtab |-> result.mtab, calls |-> Append(calls, mp)]
              ELSE configure_mounts(cfg, i + 1, result.mtab, Append(calls, mp), fail)
         ELSE configure_mounts(cfg, i + 1, mt, calls, fail)

configure_chroot_copy_first(cfg, mt, fail, isfile, rsv) ==
    LET m == configure_mounts(cfg, 1, mt, <<>>, fail) IN
    [ok |-> m.ok, mtab |-> m.mtab, calls |-> m.calls,
     resolv |-> IF isfile THEN "host" ELSE rsv]

(* configure_chroot: the mounts, then the copy of resolv.conf *)
configure_chroot(cfg, mt, fail, isfile, rsv) ==
    LET m == configure_mounts(cfg, 1, mt, <<>>, fail) IN
    IF ~m.ok THEN [ok |-> FALSE, mtab |-> m.mtab, calls |-> m.calls, resolv |-> rsv]
    ELSE [ok |-> TRUE, mtab |-> m.mtab, calls |-> m.calls,
          resolv |-> IF isfile THEN "host" ELSE rsv]

RECURSIVE unmount_configured_continue(_, _, _, _, _)
unmount_configured_continue(rev, i, mt, calls, fail) ==
    IF i > Len(rev) THEN [ok |-> \A k \in DOMAIN calls : calls[k].ok, mtab |-> mt, calls |-> calls]
    ELSE LET mp == MountSpec(rev[i]) IN
         IF ~mounted(mt, mp)
         THEN unmount_configured_continue(rev, i + 1, mt, calls, fail)
         ELSE LET result == unmount(mt, mp, fail)
                  call == [path |-> mp, ok |-> result.success]
              IN  unmount_configured_continue(rev, i + 1, result.mtab, Append(calls, call), fail)

RECURSIVE unmount_configured_nocheck(_, _, _, _, _)
unmount_configured_nocheck(rev, i, mt, calls, fail) ==
    IF i > Len(rev) THEN [ok |-> TRUE, mtab |-> mt, calls |-> calls]
    ELSE LET mp == MountSpec(rev[i])
             result == unmount(mt, mp, fail)
             call == [path |-> mp, ok |-> result.success]
         IN  IF ~result.success
             THEN [ok |-> FALSE, mtab |-> result.mtab, calls |-> Append(calls, call)]
             ELSE unmount_configured_nocheck(rev, i + 1, result.mtab, Append(calls, call), fail)

RECURSIVE unmount_configured(_, _, _, _, _)
(* the first for loop of teardown_chroot, over reversed(config.chroot_mounts) *)
unmount_configured(rev, i, mt, calls, fail) ==
    IF i > Len(rev) THEN [ok |-> TRUE, mtab |-> mt, calls |-> calls]
    ELSE LET mp == MountSpec(rev[i]) IN
         IF ~mounted(mt, mp)
         THEN unmount_configured(rev, i + 1, mt, calls, fail)
         ELSE LET result == unmount(mt, mp, fail)
                  call == [path |-> mp, ok |-> result.success]
              IN  IF ~result.success
                  THEN [ok |-> FALSE, mtab |-> result.mtab, calls |-> Append(calls, call)]
                  ELSE unmount_configured(rev, i + 1, result.mtab, Append(calls, call), fail)

RECURSIVE unmount_strays(_, _, _, _, _)
(* the second for loop of teardown_chroot, over lifo_mounts(self.mountpoint) *)
unmount_strays(strays, i, mt, calls, fail) ==
    IF i > Len(strays) THEN [ok |-> TRUE, mtab |-> mt, calls |-> calls]
    ELSE LET result == unmount(mt, strays[i], fail)
             call == [path |-> strays[i], ok |-> result.success]
         IN  IF ~result.success
             THEN [ok |-> FALSE, mtab |-> result.mtab, calls |-> Append(calls, call)]
             ELSE unmount_strays(strays, i + 1, result.mtab, Append(calls, call), fail)

(* the log.error of the second loop formats mountspec, the variable of the  *)
(* first loop, which is unbound when config.chroot_mounts is empty: the     *)
(* failed unmount of a stray mount then raises UnboundLocalError            *)
stray_error(cfg, ok) == IF ~ok /\ cfg = <<>> THEN "UnboundLocalError" ELSE "none"

teardown_order_forward(cfg) == cfg

(* reversed(config.chroot_mounts) *)
teardown_order(cfg) == Reverse(cfg)

teardown_mounts_sweep_always(cfg, mt, fail, rsv) ==
    LET c == unmount_configured(teardown_order(cfg), 1, mt, <<>>, fail)
        s == unmount_strays(lifo_mounts(c.mtab, mountpoint), 1, c.mtab, c.calls, fail)
    IN  [ok |-> c.ok /\ s.ok, exc |-> stray_error(cfg, s.ok), mtab |-> s.mtab,
         calls |-> s.calls, resolv |-> "absent"]

(* teardown_chroot once the mountpoint is known to be mounted: the removal *)
(* of resolv.conf, the configured mounts, the stray mounts                  *)
teardown_mounts(cfg, mt, fail, rsv) ==
    LET c == unmount_configured(teardown_order(cfg), 1, mt, <<>>, fail) IN
    IF ~c.ok
    THEN [ok |-> FALSE, exc |-> "none", mtab |-> c.mtab, calls |-> c.calls,
          resolv |-> "absent"]
    ELSE LET s == unmount_strays(lifo_mounts(c.mtab, mountpoint), 1, c.mtab, c.calls, fail)
         IN  [ok |-> s.ok, exc |-> stray_error(cfg, s.ok), mtab |-> s.mtab,
              calls |-> s.calls, resolv |-> "absent"]

teardown_idle_unchecked(cfg, mt, fail, rsv) == teardown_mounts(cfg, mt, fail, rsv)

(* teardown_chroot once the mountpoint is known not to be busy *)
teardown_idle(cfg, mt, fail, rsv) ==
    IF ~mounted(mt, mountpoint)
    THEN [ok |-> TRUE, exc |-> "none", mtab |-> mt, calls |-> <<>>, resolv |-> rsv]
    ELSE teardown_mounts(cfg, mt, fail, rsv)

teardown_chroot_force(cfg, mt, isbusy, fail, rsv) == teardown_idle(cfg, mt, fail, rsv)

teardown_chroot_resolv_first(cfg, mt, isbusy, fail, rsv) ==
    IF isbusy THEN [ok |-> FALSE, exc |-> "none", mtab |-> mt, calls |-> <<>>,
                    resolv |-> "absent"]
    ELSE teardown_idle(cfg, mt, fail, rsv)

(* teardown_chroot *)
teardown_chroot(cfg, mt, isbusy, fail, rsv) ==
    IF isbusy THEN [ok |-> FALSE, exc |-> "none", mtab |-> mt, calls |-> <<>>,
                    resolv |-> rsv]
    ELSE teardown_idle(cfg, mt, fail, rsv)

(* __enter__: raises VolumeException unless configure_chroot returned True *)
__enter__(ok) == IF ~ok THEN "VolumeException" ELSE "pending"

(* __exit__: raises VolumeException unless teardown_chroot returned True,   *)
(* else returns False and an exception of the body propagates               *)
__exit__(ok, exc) == IF ~ok THEN "VolumeException"
                     ELSE IF exc THEN "ProvisionException" ELSE "ok"

(* aminator.util.linux.short_circuit: /sbin/service now runs the stand-in *)
short_circuit(svc, okay) == IF okay THEN [success |-> TRUE, service |-> "short"]
                            ELSE [success |-> FALSE, service |-> svc]

(* aminator.util.linux.rewire: /sbin/service is the original script again *)
rewire(svc, okay) == IF okay THEN [success |-> TRUE, service |-> "wired"]
                     ELSE [success |-> FALSE, service |-> svc]

(* a command provision ran and whether it reported success *)
step(cmd, ok) == [cmd |-> cmd, ok |-> ok]

provision_yum_swallow(sc, st, svc, cleanOk, installOk, rewireOk) ==
    IF ~installOk
    THEN [exc |-> TRUE,
          steps |-> st \o <<step("yum_clean_metadata", cleanOk), step("yum_install", FALSE)>>,
          service |-> svc]
    ELSE IF sc
    THEN LET r == rewire(svc, rewireOk) IN
         [exc |-> ~r.success,
          steps |-> st \o <<step("yum_clean_metadata", cleanOk), step("yum_install", TRUE),
                            step("rewire", r.success)>>,
          service |-> r.service]
    ELSE [exc |-> FALSE,
          steps |-> st \o <<step("yum_clean_metadata", cleanOk), step("yum_install", TRUE)>>,
          service |-> svc]

(* provision from yum_clean_metadata() on; st and svc are the steps run and *)
(* the state of /sbin/service so far                                        *)
provision_yum(sc, st, svc, cleanOk, installOk, rewireOk) ==
    IF ~cleanOk
    THEN [exc |-> TRUE, steps |-> Append(st, step("yum_clean_metadata", FALSE)),
          service |-> svc]
    ELSE IF ~installOk
    THEN [exc |-> TRUE,
          steps |-> st \o <<step("yum_clean_metadata", TRUE), step("yum_install", FALSE)>>,
          service |-> svc]
    ELSE IF sc
    THEN LET r == rewire(svc, rewireOk) IN
         [exc |-> ~r.success,
          steps |-> st \o <<step("yum_clean_metadata", TRUE), step("yum_install", TRUE),
                            step("rewire", r.success)>>,
          service |-> r.service]
    ELSE [exc |-> FALSE,
          steps |-> st \o <<step("yum_clean_metadata", TRUE), step("yum_install", TRUE)>>,
          service |-> svc]

(* provision: the body of the with Chroot(self.mountpoint) block *)
provision(sc, svc, scOk, cleanOk, installOk, rewireOk) ==
    IF sc
    THEN LET r == short_circuit(svc, scOk) IN
         IF ~r.success
         THEN [exc |-> TRUE, steps |-> <<step("short_circuit", FALSE)>>,
               service |-> r.service]
         ELSE provision_yum(sc, <<step("short_circuit", TRUE)>>, r.service,
                            cleanOk, installOk, rewireOk)
    ELSE provision_yum(sc, <<>>, svc, cleanOk, installOk, rewireOk)

(* the mount definition lists of the configuration *)
Configs == UNION { [1..n -> MountPoints] : n \in 0..MaxMounts }

(* the sequences of distinct elements of S *)
SeqsNoDup(S) ==
    UNION { { s \in [1..n -> S] : \A i, j \in 1..n : i # j => s[i] # s[j] } :
            n \in 0..Cardinality(S) }

(* the mount tables the host can have when the session starts *)
InitialMtabs ==
    { <<HostProc>> \o b \o s : b \in { <<>>, <<mountpoint>> }, s \in SeqsNoDup(SpecPaths) }

Init ==
    /\ chroot_mounts \in Configs
    /\ short_circuit_sbin_service \in BOOLEAN
    /\ mtab \in InitialMtabs
    /\ host_resolv \in BOOLEAN
    /\ resolv \in {"absent", "image"}
    /\ service = "wired"
    /\ pc = "start"
    /\ outcome = "pending"
    /\ enter_ran = FALSE
    /\ enter_ok = FALSE
    /\ body_ran = FALSE
    /\ body_exc = FALSE
    /\ exit_ran = FALSE
    /\ teardown_ok = FALSE
    /\ teardown_exc = "none"
    /\ enters = 0
    /\ busy = FALSE
    /\ mount_calls = <<>>
    /\ unmount_calls = <<>>
    /\ steps = <<>>
    /\ mtab0 = mtab
    /\ resolv0 = resolv
    /\ pre_mtab = mtab
    /\ pre_resolv = resolv

(* with provisioner(volume): __enter__ runs configure_chroot and raises     *)
(* VolumeException when it returns False; the with statement then runs      *)
(* neither its body nor __exit__                                            *)
Enter ==
    /\ pc = "start"
    /\ \E fail \in SUBSET SpecPaths :
         LET r == configure_chroot(chroot_mounts, mtab, fail, host_resolv, resolv) IN
         /\ mtab' = r.mtab
         /\ resolv' = r.resolv
         /\ mount_calls' = r.calls
         /\ enter_ok' = r.ok
         /\ pc' = IF r.ok THEN "body" ELSE "released"
         /\ outcome' = __enter__(r.ok)
    /\ enter_ran' = TRUE
    /\ enters' = enters + 1
    /\ mtab0' = mtab
    /\ resolv0' = resolv
    /\ UNCHANGED <<chroot_mounts, short_circuit_sbin_service, host_resolv, service,
                   body_ran, body_exc, exit_ran, teardown_ok, teardown_exc, busy,
                   unmount_calls, steps, pre_mtab, pre_resolv>>

(* the body of the with-block: provision(); what the installed packages     *)
(* mount below the chroot stays mounted                                     *)
Provision ==
    /\ pc = "body"
    /\ \E scOk, cleanOk, installOk, rewireOk \in BOOLEAN :
         LET r == provision(short_circuit_sbin_service, service,
                            scOk, cleanOk, installOk, rewireOk) IN
         /\ steps' = r.steps
         /\ service' = r.service
         /\ body_exc' = r.exc
    /\ \E extra \in SeqsNoDup({ p \in SpecPaths : ~mounted(mtab, p) }) :
         mtab' = mtab \o extra
    /\ body_ran' = TRUE
    /\ pc' = "exit"
    /\ UNCHANGED <<chroot_mounts, short_circuit_sbin_service, host_resolv, resolv,
                   outcome, enter_ran, enter_ok, exit_ran, teardown_ok, teardown_exc,
                   enters, busy, mount_calls, unmount_calls, mtab0, resolv0,
                   pre_mtab, pre_resolv>>

(* __exit__ runs teardown_chroot, raises VolumeException when it returns    *)
(* False and otherwise returns False, which lets an exception of the body   *)
(* propagate; an exception of teardown_chroot itself propagates             *)
RunExit ==
    /\ \E isbusy \in BOOLEAN, fail \in SUBSET SpecPaths :
         LET r == teardown_chroot(chroot_mounts, mtab, isbusy, fail, resolv) IN
         /\ busy' = isbusy
         /\ mtab' = r.mtab
         /\ resolv' = r.resolv
         /\ unmount_calls' = r.calls
         /\ teardown_ok' = r.ok
         /\ teardown_exc' = r.exc
         /\ outcome' = IF r.exc # "none" THEN r.exc ELSE __exit__(r.ok, body_exc)
    /\ exit_ran' = TRUE
    /\ pre_mtab' = mtab
    /\ pre_resolv' = resolv
    /\ pc' = "released"
    /\ UNCHANGED <<chroot_mounts, short_circuit_sbin_service, host_resolv, service,
                   enter_ran, enter_ok, enters, body_ran, body_exc, mount_calls,
                   steps, mtab0, resolv0>>

Exit == pc = "exit" /\ RunExit

(* leaving the with-block *)
Next == Enter \/ Provision \/ Exit

Spec == Init /\ [][Next]_vars

(***************************************************************************)
(* The session driven by a caller that calls __enter__ and __exit__ itself *)
(* and so can call them out of turn                                        *)
(***************************************************************************)

(* __exit__ on a session on which __enter__ never ran *)
ExitUnentered == pc = "start" /\ RunExit

(* __exit__ by the caller after __enter__ raised, to undo the mounts made *)
ExitAfterFailedEnter ==
    /\ pc = "released" /\ enter_ran /\ ~enter_ok /\ ~exit_ran
    /\ RunExit

(* a second __enter__ on the session that is already entered *)
Reenter ==
    /\ pc = "body" /\ enters = 1
    /\ \E fail \in SUBSET SpecPaths :
         LET r == configure_chroot(chroot_mounts, mtab, fail, host_resolv, resolv) IN
         /\ mtab' = r.mtab
         /\ resolv' = r.resolv
         /\ mount_calls' = mount_calls \o r.calls
         /\ enter_ok' = r.ok
         /\ pc' = IF r.ok THEN "body" ELSE "released"
         /\ outcome' = __enter__(r.ok)
    /\ enters' = enters + 1
    /\ UNCHANGED <<chroot_mounts, short_circuit_sbin_service, host_resolv, service,
                   enter_ran, body_ran, body_exc, exit_ran, teardown_ok, teardown_exc,
                   busy, unmount_calls, steps, mtab0, resolv0, pre_mtab, pre_resolv>>

NextDirect ==
    Enter \/ Provision \/ Exit \/ ExitUnentered \/ ExitAfterFailedEnter \/ Reenter

SpecDirect == Init /\ [][NextDirect]_vars

TypeOK ==
    /\ chroot_mounts \in Configs
    /\ pc \in {"start", "body", "exit", "released"}
    /\ outcome \in {"pending", "ok", "VolumeException", "ProvisionException",
                    "UnboundLocalError"}
    /\ resolv \in {"absent", "image", "host"}
    /\ service \in {"wired", "short"}

(***************************************************************************)
(* Observations used by the properties                                     *)
(***************************************************************************)

(* the configured mountpoints, as absolute paths, in configuration order *)
CfgSeq == [i \in 1..Len(chroot_mounts) |-> MountSpec(chroot_mounts[i])]

CfgPaths == Range(CfgSeq)

(* the paths of the unmount() calls of teardown_chroot, in order *)
UnmountPaths == [i \in 1..Len(unmount_calls) |-> unmount_calls[i].path]

(* the unmount() calls made on configured mountpoints *)
ConfiguredUnmounts == SelectSeq(UnmountPaths, LAMBDA p : p \in CfgPaths)

AllUnmountsOk == \A i \in DOMAIN unmount_calls : unmount_calls[i].ok

NoRepeat(s) == \A i, j \in DOMAIN s : i # j => s[i] # s[j]

(* the paths teardown_chroot unmounted *)
Unmounted == { unmount_calls[i].path : i \in { j \in DOMAIN unmount_calls : unmount_calls[j].ok } }

(***************************************************************************)
(* C1                                                                      *)
(***************************************************************************)

(* C1, as stated: after a successful configure_chroot, a teardown_chroot    *)
(* that finds the mountpoint not busy and whose unmounts all succeed        *)
(* unmounts the configured mountpoints in the reverse of the order of the   *)
(* mount calls of configure_chroot.                                         *)
C1_ReverseOfMountCalls ==
    (exit_ran /\ enter_ok /\ ~busy /\ AllUnmountsOk)
        => ConfiguredUnmounts = Reverse(mount_calls)

(* C1, amended: the same, for a teardown_chroot that finds the mountpoint   *)
(* mounted, a configured list that names no mountpoint twice and configured *)
(* mountpoints of which none was mounted before configure_chroot.           *)
C1_ReverseOfMountCallsAmended ==
    (/\ exit_ran /\ enter_ok /\ ~busy /\ AllUnmountsOk
     /\ mounted(pre_mtab, mountpoint)
     /\ NoRepeat(CfgSeq)
     /\ \A p \in CfgPaths : ~mounted(mtab0, p))
        => /\ ConfiguredUnmounts = Reverse(mount_calls)
           /\ mount_calls = CfgSeq

C1_Witness ==
    /\ exit_ran /\ enter_ok /\ ~busy /\ AllUnmountsOk
    /\ mounted(pre_mtab, mountpoint)
    /\ NoRepeat(CfgSeq)
    /\ \A p \in CfgPaths : ~mounted(mtab0, p)
    /\ Len(mount_calls) >= 2
    /\ Len(ConfiguredUnmounts) >= 2
    /\ Len(unmount_calls) > Len(ConfiguredUnmounts)

(***************************************************************************)
(* C2                                                                      *)
(***************************************************************************)

(* C2: when busy_mount reports the mountpoint busy, teardown_chroot returns *)
(* False, __exit__ raises VolumeException and no unmount() call is made,    *)
(* on a configured mount or on a stray one.                                 *)
C2_BusyGuard ==
    (exit_ran /\ busy)
        => /\ ~teardown_ok
           /\ outcome = "VolumeException"
           /\ unmount_calls = <<>>

C2_Witness ==
    /\ exit_ran /\ busy
    /\ mounted(pre_mtab, mountpoint)
    /\ \E p \in CfgPaths : mounted(pre_mtab, p)
    /\ \E p \in SpecPaths \ CfgPaths : mounted(pre_mtab, p)

(***************************************************************************)
(* C3                                                                      *)
(***************************************************************************)

(* C3: when the unmount() of a configured mount fails, teardown_chroot      *)
(* returns False, __exit__ raises VolumeException and that call is the last *)
(* unmount() call: no stray mount is unmounted and every mount, configured  *)
(* or stray, that was not unmounted before the failure is still mounted.    *)
C3_PartialFailureContainment ==
    \A k \in DOMAIN unmount_calls :
        (exit_ran /\ ~unmount_calls[k].ok /\ unmount_calls[k].path \in CfgPaths)
            => /\ ~teardown_ok
               /\ outcome = "VolumeException"
               /\ k = Len(unmount_calls)
               /\ \A i \in DOMAIN unmount_calls : unmount_calls[i].path \in CfgPaths
               /\ \A p \in Range(pre_mtab) : p \notin Unmounted => mounted(mtab, p)
               /\ \A i \in 1..Len(CfgSeq) :
                      (mounted(pre_mtab, CfgSeq[i]) /\ CfgSeq[i] \notin Range(UnmountPaths))
                          => mounted(mtab, CfgSeq[i])

C3_Witness ==
    /\ exit_ran /\ enter_ok
    /\ unmount_calls # <<>>
    /\ ~unmount_calls[Len(unmount_calls)].ok
    /\ unmount_calls[Len(unmount_calls)].path \in CfgPaths
    /\ \E p \in CfgPaths : p \notin Range(UnmountPaths) /\ mounted(mtab, p)
    /\ \E p \in SpecPaths \ CfgPaths : mounted(mtab, p)

(***************************************************************************)
(* C4                                                                      *)
(***************************************************************************)

(* C4: every session on which __enter__ ran, whether configure_chroot       *)
(* succeeded or not, has had __exit__ run by the time it is released.       *)
C4_EnterPairedWithExit ==
    (pc = "released" /\ enter_ran) => exit_ran

(***************************************************************************)
(* C5                                                                      *)
(***************************************************************************)

(* C5: when provision has short-circuited /sbin/service, the script is      *)
(* rewired by the time provision ends, whether it returns or raises         *)
(* ProvisionException.                                                      *)
C5_RewiredOnEveryPath ==
    (body_ran /\ short_circuit_sbin_service /\ step("short_circuit", TRUE) \in Range(steps))
        => service = "wired"

(***************************************************************************)
(* C6                                                                      *)
(***************************************************************************)

(* C6: an unmount() call on a path that is not configured is made on a path *)
(* below the mountpoint, after every configured mount that was mounted at   *)
(* the start of teardown_chroot has been unmounted successfully, and no     *)
(* unmount() call on a configured mount follows it.                         *)
C6_StraySweepOrderAndScope ==
    \A j \in DOMAIN unmount_calls :
        (exit_ran /\ unmount_calls[j].path \notin CfgPaths)
            => /\ IsUnder(mountpoint, unmount_calls[j].path)
               /\ mounted(pre_mtab, unmount_calls[j].path)
               /\ \A p \in CfgPaths :
                      mounted(pre_mtab, p)
                          => \E i \in 1..(j - 1) :
                                 unmount_calls[i].path = p /\ unmount_calls[i].ok
               /\ \A i \in DOMAIN unmount_calls :
                      i > j => unmount_calls[i].path \notin CfgPaths

C6_Witness ==
    /\ exit_ran /\ body_ran
    /\ Len(unmount_calls) >= 3
    /\ unmount_calls[1].path \in CfgPaths
    /\ unmount_calls[2].path \in CfgPaths
    /\ unmount_calls[3].path = MountSpec(<<"/", "extra">>)
    /\ ~mounted(mtab0, MountSpec(<<"/", "extra">>))

(***************************************************************************)
(* C7                                                                      *)
(***************************************************************************)

(* C7: when teardown_chroot fails the with-block gives its caller           *)
(* VolumeException, whether or not provision raised; when it succeeds, an   *)
(* exception of provision reaches the caller.                               *)
C7_TeardownFailureNotMasked ==
    exit_ran
        => /\ ~teardown_ok => outcome = "VolumeException"
           /\ (teardown_ok /\ body_exc) => outcome = "ProvisionException"

(***************************************************************************)
(* C8                                                                      *)
(***************************************************************************)

(* the position in the configuration of the mount whose mount() call failed *)
FailedAt ==
    CHOOSE i \in 1..Len(CfgSeq) :
        /\ CfgSeq[i] = mount_calls[Len(mount_calls)]
        /\ \A j \in 1..(i - 1) : CfgSeq[j] # CfgSeq[i]

(* C8: when a mount() call fails, configure_chroot makes no mount() call    *)
(* for a later mount definition, copies no resolv.conf, leaves the mounts   *)
(* it made mounted and unmounts nothing, and returns False; __enter__       *)
(* raises VolumeException and provision is not run.                         *)
C8_EnterAbortsOnFirstMountFailure ==
    (enter_ran /\ ~enter_ok)
        => /\ mount_calls # <<>>
           /\ \A j \in (FailedAt + 1)..Len(CfgSeq) :
                  CfgSeq[j] \notin Range(SubSeq(CfgSeq, 1, FailedAt))
                      => /\ CfgSeq[j] \notin Range(mount_calls)
                         /\ mounted(mtab, CfgSeq[j]) = mounted(mtab0, CfgSeq[j])
           /\ NoRepeat(mount_calls)
           /\ mtab = mtab0 \o SubSeq(mount_calls, 1, Len(mount_calls) - 1)
           /\ resolv = resolv0
           /\ unmount_calls = <<>>
           /\ outcome = "VolumeException"
           /\ pc = "released"
           /\ ~body_ran

C8_Witness ==
    /\ enter_ran /\ ~enter_ok
    /\ Len(mount_calls) = 2
    /\ Len(CfgSeq) = 3
    /\ NoRepeat(CfgSeq)
    /\ ~mounted(mtab0, CfgSeq[3])
    /\ host_resolv
    /\ resolv0 = "absent"

(***************************************************************************)
(* C9                                                                      *)
(***************************************************************************)

(* C9: when the mountpoint is neither busy nor mounted, teardown_chroot     *)
(* returns True, __exit__ does not raise, no unmount() call is made and     *)
(* resolv.conf is not removed.                                              *)
C9_IdempotentExit ==
    (exit_ran /\ ~busy /\ ~mounted(pre_mtab, mountpoint))
        => /\ teardown_ok
           /\ outcome # "VolumeException"
           /\ unmount_calls = <<>>
           /\ resolv = pre_resolv

C9_Witness ==
    /\ exit_ran /\ ~busy /\ ~mounted(pre_mtab, mountpoint)
    /\ pre_resolv = "host"
    /\ \E p \in CfgPaths : mounted(pre_mtab, p)

(***************************************************************************)
(* C10                                                                     *)
(***************************************************************************)

(* C10: when the mountpoint is busy, teardown_chroot changes nothing: the   *)
(* mount table is as it was and resolv.conf is not removed.                 *)
C10_BusyFrame ==
    (exit_ran /\ busy)
        => /\ mtab = pre_mtab
           /\ resolv = pre_resolv

C10_Witness ==
    /\ exit_ran /\ busy
    /\ pre_resolv = "host"
    /\ resolv = "host"
    /\ Len(pre_mtab) >= 4

(***************************************************************************)
(* C11                                                                     *)
(***************************************************************************)

(* C11: an __exit__ on a session that was never entered and a second        *)
(* __enter__ on an entered session end in an error, and that __exit__ runs  *)
(* none of the teardown steps.                                              *)
C11_LifecycleViolationsRejected ==
    /\ (exit_ran /\ ~enter_ran)
           => /\ outcome \notin {"pending", "ok"}
              /\ unmount_calls = <<>>
              /\ mtab = pre_mtab
              /\ resolv = pre_resolv
    /\ (enters >= 2 /\ ~exit_ran /\ ~body_ran) => outcome \notin {"pending", "ok"}

(***************************************************************************)
(* C13                                                                     *)
(***************************************************************************)

(* C13: when the unmount() of a stray mount fails, teardown_chroot returns  *)
(* False, __exit__ raises VolumeException and that call is the last         *)
(* unmount() call, whatever the configured list, the empty one included.    *)
C13_StrayFailureReported ==
    \A k \in DOMAIN unmount_calls :
        (exit_ran /\ ~unmount_calls[k].ok /\ unmount_calls[k].path \notin CfgPaths)
            => /\ ~teardown_ok
               /\ teardown_exc = "none"
               /\ outcome = "VolumeException"
               /\ k = Len(unmount_calls)

(***************************************************************************)
(* C12                                                                     *)
(***************************************************************************)

(* C12: when the host has no /etc/resolv.conf, a configure_chroot whose     *)
(* mounts succeed copies nothing into the chroot and the teardown_chroot    *)
(* that follows removes no resolv.conf from it.                             *)
C12_AbsentResolverNoop ==
    /\ (enter_ran /\ enter_ok /\ ~host_resolv /\ ~exit_ran) => resolv = resolv0
    /\ (exit_ran /\ enter_ok /\ ~host_resolv)
           => /\ pre_resolv = resolv0
              /\ resolv = pre_resolv

(***************************************************************************)
(* C14                                                                     *)
(***************************************************************************)

(* C14: with chroot_mounts = [/proc, /dev], neither mounted beforehand,     *)
(* configure_chroot mounts proc then dev, and a teardown_chroot that finds  *)
(* the mountpoint not busy and whose unmounts succeed unmounts dev then     *)
(* proc and leaves neither mounted.                                         *)
C14_ScenarioA ==
    LET P == MountSpec(<<"/", "proc">>)
        D == MountSpec(<<"/", "dev">>)
    IN  (/\ exit_ran /\ enter_ok /\ ~busy /\ AllUnmountsOk
         /\ chroot_mounts = << <<"/", "proc">>, <<"/", "dev">> >>
         /\ ~mounted(mtab0, P) /\ ~mounted(mtab0, D))
            => /\ mount_calls = <<P, D>>
               /\ ConfiguredUnmounts = <<D, P>>
               /\ ~mounted(mtab, P)
               /\ ~mounted(mtab, D)

(***************************************************************************)
(* C15                                                                     *)
(***************************************************************************)

RECURSIVE Once(_)
(* s without the later repeats of its elements *)
Once(s) == IF s = <<>> THEN <<>>
           ELSE <<Head(s)>> \o Once(SelectSeq(Tail(s), LAMBDA x : x # Head(s)))

(* the configured mounts before the one whose mount() call failed *)
MountedPrefix == SubSeq(CfgSeq, 1, FailedAt - 1)

(* of the configured mounts, only those of the prefix are mounted *)
OnlyPrefixMounted ==
    \A p \in CfgPaths : mounted(pre_mtab, p) <=> p \in Range(MountedPrefix)

(* C15, as stated: a teardown_chroot that runs after configure_chroot       *)
(* failed at a mount, with the mountpoint mounted and not busy, calls       *)
(* unmount() only on paths that are mounted, unmounts the prefix before the *)
(* failed mount in reverse order and returns True when its unmounts         *)
(* succeed.                                                                 *)
C15_ExitFromPartialState ==
    (exit_ran /\ enter_ran /\ ~enter_ok /\ ~busy /\ mounted(pre_mtab, mountpoint))
        => /\ \A i \in DOMAIN unmount_calls : mounted(pre_mtab, unmount_calls[i].path)
           /\ NoRepeat(UnmountPaths)
           /\ AllUnmountsOk
                  => /\ teardown_ok
                     /\ ConfiguredUnmounts = Reverse(MountedPrefix)

(* C15, amended: the same, the reverse order of the prefix being claimed    *)
(* for a configured list that names no mountpoint twice and of which only   *)
(* the prefix before the failed mount is mounted.                           *)
C15_ExitFromPartialStateAmended ==
    (exit_ran /\ enter_ran /\ ~enter_ok /\ ~busy /\ mounted(pre_mtab, mountpoint))
        => /\ \A i \in DOMAIN unmount_calls : mounted(pre_mtab, unmount_calls[i].path)
           /\ NoRepeat(UnmountPaths)
           /\ AllUnmountsOk => (teardown_ok /\ outcome = "ok")
           /\ (AllUnmountsOk /\ NoRepeat(CfgSeq) /\ OnlyPrefixMounted)
                  => ConfiguredUnmounts = Reverse(MountedPrefix)

C15_Witness ==
    /\ exit_ran /\ enter_ran /\ ~enter_ok /\ ~busy /\ mounted(pre_mtab, mountpoint)
    /\ AllUnmountsOk /\ OnlyPrefixMounted
    /\ Len(CfgSeq) = 3
    /\ NoRepeat(CfgSeq)
    /\ FailedAt = 3
    /\ Len(mount_calls) = 3
    /\ Len(unmount_calls) = 2

(***************************************************************************)
(* C16                                                                     *)
(***************************************************************************)

(* the mounts configure_chroot has to make, in configuration order *)
MountsDue == Once(SelectSeq(CfgSeq, LAMBDA p : ~mounted(mtab0, p)))

(* C16: configure_chroot calls mount() in configuration order, never on a   *)
(* mountpoint that is mounted at that moment; a mounted one is skipped and  *)
(* counts as done, so a list that is mounted already gives True with no     *)
(* mount() call.                                                            *)
C16_EnterSkipsMounted ==
    (enter_ran /\ enters = 1)
        => /\ \A i \in DOMAIN mount_calls : ~mounted(mtab0, mount_calls[i])
           /\ NoRepeat(mount_calls)
           /\ Len(mount_calls) <= Len(MountsDue)
           /\ mount_calls = SubSeq(MountsDue, 1, Len(mount_calls))
           /\ enter_ok => mount_calls = MountsDue
           /\ (\A p \in CfgPaths : mounted(mtab0, p)) => (enter_ok /\ mount_calls = <<>>)

C16_Witness ==
    /\ enter_ran /\ enter_ok
    /\ Len(CfgSeq) = 3
    /\ NoRepeat(CfgSeq)
    /\ mounted(mtab0, CfgSeq[2])
    /\ mount_calls = <<CfgSeq[1], CfgSeq[3]>>

(***************************************************************************)
(* C17                                                                     *)
(***************************************************************************)

(* C17: whenever teardown_chroot has returned True, nothing is mounted      *)
(* below the mountpoint any more, configured or not.                        *)
C17_CleanOnSuccess ==
    (exit_ran /\ teardown_ok)
        => \A p \in Range(mtab) : ~IsUnder(mountpoint, p)

(***************************************************************************)
(* C18                                                                     *)
(***************************************************************************)

(* C18: after a configure_chroot and a teardown_chroot that both returned   *)
(* True, resolv.conf in the chroot is what it was before configure_chroot;  *)
(* teardown_chroot removes it only when configure_chroot copied it in.      *)
C18_ResolverRoundTrip ==
    /\ (exit_ran /\ enter_ok /\ teardown_ok) => resolv = resolv0
    /\ (exit_ran /\ resolv # pre_resolv) => (enter_ok /\ host_resolv)

(***************************************************************************)
(* C19                                                                     *)
(***************************************************************************)

(* the stray mounts a teardown_chroot can find *)
StraysFound == { p \in Range(pre_mtab) : IsUnder(mountpoint, p) /\ p \notin CfgPaths }

(* C19: configure_chroot calls mount() at most once per mountpoint and      *)
(* teardown_chroot calls unmount() at most once per path; teardown_chroot   *)
(* ends by returning True or by returning False, which __exit__ turns into  *)
(* VolumeException, after at most as many unmount() calls as there are      *)
(* configured mounts and strays.                                            *)
C19_NoRetryAndTermination ==
    /\ (enter_ran /\ enters = 1) => NoRepeat(mount_calls)
    /\ exit_ran
           => /\ NoRepeat(UnmountPaths)
              /\ teardown_exc = "none"
              /\ teardown_ok <=> outcome \in {"ok", "ProvisionException"}
              /\ ~teardown_ok <=> outcome = "VolumeException"
              /\ Len(unmount_calls) <= Len(CfgSeq) + Cardinality(StraysFound)

(***************************************************************************)
(* C20                                                                     *)
(***************************************************************************)

(* the commands of provision, in order *)
StepOrder ==
    IF short_circuit_sbin_service
    THEN <<"short_circuit", "yum_clean_metadata", "yum_install", "rewire">>
    ELSE <<"yum_clean_metadata", "yum_install">>

(* C20: provision runs short_circuit (if enabled), yum_clean_metadata,      *)
(* yum_install, rewire (if enabled) in that order, runs a command only when *)
(* all commands before it succeeded, and raises ProvisionException exactly  *)
(* when the last command it ran failed; it runs them all otherwise.         *)
C20_ProvisionStepOrder ==
    body_ran
        => /\ steps # <<>>
           /\ Len(steps) <= Len(StepOrder)
           /\ \A i \in DOMAIN steps : steps[i].cmd = StepOrder[i]
           /\ \A i \in 1..(Len(steps) - 1) : steps[i].ok
           /\ body_exc <=> ~steps[Len(steps)].ok
           /\ ~body_exc => Len(steps) = Len(StepOrder)

C20_Witness ==
    /\ body_ran /\ body_exc
    /\ short_circuit_sbin_service
    /\ Len(steps) = 2
    /\ steps[1] = step("short_circuit", TRUE)
    /\ steps[2] = step("yum_clean_metadata", FALSE)
    /\ service = "short"

====
